---- MODULE Spec2Model ----
(***************************************************************************)
(* A model of sagemaker.accept_types and sagemaker.instance_types: the     *)
(* four JumpStart model accessors (validate the model identifier, then     *)
(* delegate to sagemaker.jumpstart.artifacts) and the local predicate      *)
(* volume_size_supported.                                                  *)
(*                                                                         *)
(* Python values are tagged records.  A Python string that the code takes  *)
(* apart (an instance type) is a sequence of one-character strings; a      *)
(* string the code only passes along is a TLA+ string.  A message is the   *)
(* sequence of the pieces it is concatenated from.                         *)
(***************************************************************************)
EXTENDS Naturals, Sequences, FiniteSets, TLC

VARIABLES call, env, result, frames

vars == <<call, env, result, frames>>

----------------------------------------------------------------------------
(* Python values *)

PyNone == [type |-> "NoneType"]
PyStr(s) == [type |-> "str", value |-> s]
PyBool(b) == [type |-> "bool", value |-> b]
PyList(l) == [type |-> "list", value |-> l]
\* A parameter the caller left out of the call.
Omitted == [type |-> "omitted"]

Return(v) == [kind |-> "return", value |-> v]
Raise(e) == [kind |-> "raise", exc |-> e]
\* raise ValueError(msg) at the given line of the given module
ValueError(msg, site) == [type |-> "ValueError", args |-> msg, site |-> site]

----------------------------------------------------------------------------
(* The collaborator, sagemaker.jumpstart: what it answers to one call *)

Resolvers ==
    {"_retrieve_supported_accept_types", "_retrieve_default_accept_type",
     "_retrieve_default_instance_type", "_retrieve_instance_types"}

ResolverValues ==
    {PyStr("application/json"), PyList(<<"ml.m5.large", "ml.p3.2xlarge">>)}

ResolverErrors ==
    {[type |-> "ValueError", args |-> <<"resolver rejected the request">>, site |-> "artifacts"],
     [type |-> "KeyError", args |-> <<"no such model">>, site |-> "artifacts"]}

ResolverOutcomes ==
    {Return(v) : v \in ResolverValues} \cup {Raise(e) : e \in ResolverErrors}

Envs == [valid : BOOLEAN, resolved : ResolverOutcomes]

\* One interaction: the function asked, the arguments in positional order,
\* and what came back.
Ask(e, fn, args) ==
    [fn |-> fn, args |-> args,
     ret |-> IF fn = "is_jumpstart_model_input"
             THEN Return(PyBool(e.valid))
             ELSE e.resolved]

\* The module's own test `scope is None`, recorded in the same shape.
ScopeIsNone(scope) ==
    [fn |-> "scope is None", args |-> <<scope>>, ret |-> Return(PyBool(scope = PyNone))]

----------------------------------------------------------------------------
(* Messages.  The source quotes the parameter names with grave accents,  *)
(* which a TLA+ string cannot hold; they are written as apostrophes here. *)

AcceptTypesIdMessage ==
    <<"Must specify JumpStart ", "'model_id'", " and ", "'model_version'",
      " when retrieving accept types.">>

InstanceTypesIdMessage ==
    <<"Must specify JumpStart ", "'model_id'", " and ", "'model_version'",
      " when retrieving instance types.">>

ScopeMessage == <<"Must specify scope for instance types.">>

----------------------------------------------------------------------------
(* sagemaker.accept_types.  A handler takes the collaborator's answers e   *)
(* and its parameters a as bound by the call (defaults filled in), and     *)
(* yields the call's outcome and the trace of its interactions.            *)

retrieve_options_defaults ==
    [region |-> PyNone, model_id |-> PyNone, model_version |-> PyNone,
     tolerate_vulnerable_model |-> PyBool(FALSE),
     tolerate_deprecated_model |-> PyBool(FALSE)]

\* A variant that delegates without asking whether the identifier is valid.
retrieve_options_unchecked(e, a) ==
    LET res == Ask(e, "_retrieve_supported_accept_types",
                   <<a.model_id, a.model_version, a.region,
                     a.tolerate_vulnerable_model, a.tolerate_deprecated_model>>)
    IN  [outcome |-> res.ret, trace |-> <<res>>]

retrieve_options(e, a) ==
    LET chk == Ask(e, "is_jumpstart_model_input", <<a.model_id, a.model_version>>)
    IN  IF ~chk.ret.value.value
        THEN [outcome |-> Raise(ValueError(AcceptTypesIdMessage, "accept_types.py:50")),
              trace |-> <<chk>>]
        ELSE LET res == Ask(e, "_retrieve_supported_accept_types",
                            <<a.model_id, a.model_version, a.region,
                              a.tolerate_vulnerable_model, a.tolerate_deprecated_model>>)
             IN  [outcome |-> res.ret, trace |-> <<chk, res>>]

accept_types_retrieve_default_defaults ==
    [region |-> PyNone, model_id |-> PyNone, model_version |-> PyNone,
     tolerate_vulnerable_model |-> PyBool(FALSE),
     tolerate_deprecated_model |-> PyBool(FALSE)]

\* A variant that hands the two tolerance flags over in the other order.
accept_types_retrieve_default_flags_swapped(e, a) ==
    LET chk == Ask(e, "is_jumpstart_model_input", <<a.model_id, a.model_version>>)
    IN  IF ~chk.ret.value.value
        THEN [outcome |-> Raise(ValueError(AcceptTypesIdMessage, "accept_types.py:93")),
              trace |-> <<chk>>]
        ELSE LET res == Ask(e, "_retrieve_default_accept_type",
                            <<a.model_id, a.model_version, a.region,
                              a.tolerate_deprecated_model, a.tolerate_vulnerable_model>>)
             IN  [outcome |-> res.ret, trace |-> <<chk, res>>]

\* A variant that asks about the identifier and delegates whatever the answer.
accept_types_retrieve_default_answer_ignored(e, a) ==
    LET chk == Ask(e, "is_jumpstart_model_input", <<a.model_id, a.model_version>>)
        res == Ask(e, "_retrieve_default_accept_type",
                   <<a.model_id, a.model_version, a.region,
                     a.tolerate_vulnerable_model, a.tolerate_deprecated_model>>)
    IN  [outcome |-> res.ret, trace |-> <<chk, res>>]

accept_types_retrieve_default(e, a) ==
    LET chk == Ask(e, "is_jumpstart_model_input", <<a.model_id, a.model_version>>)
    IN  IF ~chk.ret.value.value
        THEN [outcome |-> Raise(ValueError(AcceptTypesIdMessage, "accept_types.py:93")),
              trace |-> <<chk>>]
        ELSE LET res == Ask(e, "_retrieve_default_accept_type",
                            <<a.model_id, a.model_version, a.region,
                              a.tolerate_vulnerable_model, a.tolerate_deprecated_model>>)
             IN  [outcome |-> res.ret, trace |-> <<chk, res>>]

----------------------------------------------------------------------------
(* sagemaker.instance_types *)

instance_types_retrieve_default_defaults ==
    [region |-> PyNone, model_id |-> PyNone, model_version |-> PyNone,
     scope |-> PyNone,
     tolerate_vulnerable_model |-> PyBool(FALSE),
     tolerate_deprecated_model |-> PyBool(FALSE)]

\* A variant that tests scope before it asks about the identifier.
instance_types_retrieve_default_scope_first(e, a) ==
    LET chk == Ask(e, "is_jumpstart_model_input", <<a.model_id, a.model_version>>)
        sc == ScopeIsNone(a.scope)
    IN  IF sc.ret.value.value
        THEN [outcome |-> Raise(ValueError(ScopeMessage, "instance_types.py:64")),
              trace |-> <<sc>>]
        ELSE IF ~chk.ret.value.value
        THEN [outcome |-> Raise(ValueError(InstanceTypesIdMessage, "instance_types.py:59")),
              trace |-> <<sc, chk>>]
        ELSE LET res == Ask(e, "_retrieve_default_instance_type",
                            <<a.model_id, a.model_version, a.scope, a.region,
                              a.tolerate_vulnerable_model, a.tolerate_deprecated_model>>)
             IN  [outcome |-> res.ret, trace |-> <<sc, chk, res>>]

\* A variant that catches a resolver failure and raises its own ValueError.
instance_types_retrieve_default_wrapping(e, a) ==
    LET chk == Ask(e, "is_jumpstart_model_input", <<a.model_id, a.model_version>>)
        sc == ScopeIsNone(a.scope)
    IN  IF ~chk.ret.value.value
        THEN [outcome |-> Raise(ValueError(InstanceTypesIdMessage, "instance_types.py:59")),
              trace |-> <<chk>>]
        ELSE IF sc.ret.value.value
        THEN [outcome |-> Raise(ValueError(ScopeMessage, "instance_types.py:64")),
              trace |-> <<chk, sc>>]
        ELSE LET res == Ask(e, "_retrieve_default_instance_type",
                            <<a.model_id, a.model_version, a.scope, a.region,
                              a.tolerate_vulnerable_model, a.tolerate_deprecated_model>>)
             IN  [outcome |-> IF res.ret.kind = "raise"
                              THEN Raise(ValueError(res.ret.exc.args, "instance_types.py:66"))
                              ELSE res.ret,
                  trace |-> <<chk, sc, res>>]

instance_types_retrieve_default(e, a) ==
    LET chk == Ask(e, "is_jumpstart_model_input", <<a.model_id, a.model_version>>)
        sc == ScopeIsNone(a.scope)
    IN  IF ~chk.ret.value.value
        THEN [outcome |-> Raise(ValueError(InstanceTypesIdMessage, "instance_types.py:59")),
              trace |-> <<chk>>]
        ELSE IF sc.ret.value.value
        THEN [outcome |-> Raise(ValueError(ScopeMessage, "instance_types.py:64")),
              trace |-> <<chk, sc>>]
        ELSE LET res == Ask(e, "_retrieve_default_instance_type",
                            <<a.model_id, a.model_version, a.scope, a.region,
                              a.tolerate_vulnerable_model, a.tolerate_deprecated_model>>)
             IN  [outcome |-> res.ret, trace |-> <<chk, sc, res>>]

retrieve_defaults ==
    [region |-> PyNone, model_id |-> PyNone, model_version |-> PyNone,
     scope |-> PyNone,
     tolerate_vulnerable_model |-> PyBool(FALSE),
     tolerate_deprecated_model |-> PyBool(FALSE)]

\* A variant without the scope test.
retrieve_scope_untested(e, a) ==
    LET chk == Ask(e, "is_jumpstart_model_input", <<a.model_id, a.model_version>>)
    IN  IF ~chk.ret.value.value
        THEN [outcome |-> Raise(ValueError(InstanceTypesIdMessage, "instance_types.py:107")),
              trace |-> <<chk>>]
        ELSE LET res == Ask(e, "_retrieve_instance_types",
                            <<a.model_id, a.model_version, a.scope, a.region,
                              a.tolerate_vulnerable_model, a.tolerate_deprecated_model>>)
             IN  [outcome |-> res.ret, trace |-> <<chk, res>>]

\* A variant that accepts only the scopes "training" and "inference".
retrieve_scope_validated(e, a) ==
    LET chk == Ask(e, "is_jumpstart_model_input", <<a.model_id, a.model_version>>)
        sc == ScopeIsNone(a.scope)
    IN  IF ~chk.ret.value.value
        THEN [outcome |-> Raise(ValueError(InstanceTypesIdMessage, "instance_types.py:107")),
              trace |-> <<chk>>]
        ELSE IF a.scope \notin {PyStr("training"), PyStr("inference")}
        THEN [outcome |-> Raise(ValueError(ScopeMessage, "instance_types.py:112")),
              trace |-> <<chk, sc>>]
        ELSE LET res == Ask(e, "_retrieve_instance_types",
                            <<a.model_id, a.model_version, a.scope, a.region,
                              a.tolerate_vulnerable_model, a.tolerate_deprecated_model>>)
             IN  [outcome |-> res.ret, trace |-> <<chk, sc, res>>]

retrieve(e, a) ==
    LET chk == Ask(e, "is_jumpstart_model_input", <<a.model_id, a.model_version>>)
        sc == ScopeIsNone(a.scope)
    IN  IF ~chk.ret.value.value
        THEN [outcome |-> Raise(ValueError(InstanceTypesIdMessage, "instance_types.py:107")),
              trace |-> <<chk>>]
        ELSE IF sc.ret.value.value
        THEN [outcome |-> Raise(ValueError(ScopeMessage, "instance_types.py:112")),
              trace |-> <<chk, sc>>]
        ELSE LET res == Ask(e, "_retrieve_instance_types",
                            <<a.model_id, a.model_version, a.scope, a.region,
                              a.tolerate_vulnerable_model, a.tolerate_deprecated_model>>)
             IN  [outcome |-> res.ret, trace |-> <<chk, sc, res>>]

----------------------------------------------------------------------------
(* volume_size_supported *)

\* str.split("."): the segments between the periods, empty ones kept.
RECURSIVE Split(_)
Split(s) ==
    IF \A i \in 1..Len(s) : s[i] # "."
    THEN <<s>>
    ELSE LET i == CHOOSE j \in 1..Len(s) :
                     s[j] = "." /\ \A k \in 1..(j - 1) : s[k] # "."
         IN  <<SubSeq(s, 1, i - 1)>> \o Split(SubSeq(s, i + 1, Len(s)))

\* `c in s` for a one-character string c
Contains(s, c) == \E i \in 1..Len(s) : s[i] = c

\* s.startswith(prefix)
StartsWith(s, prefix) ==
    Len(s) >= Len(prefix) /\ SubSeq(s, 1, Len(prefix)) = prefix

\* The text an f-string puts in for a value.
Format(v) == IF v.type = "str" THEN v.value ELSE <<"N", "o", "n", "e">>

\* str(e) of an exception raised with one argument
StrOfException(x) == x.args

FormatMessage == <<"Instance type must have 2 periods and start with 'ml'.">>

NoSplitMessage == <<"'NoneType' object has no attribute 'split'">>

\* A variant that compares the whole family with "d".
volume_size_supported_try_whole_family(instance_type) ==
    IF instance_type.type # "str"
    THEN Raise([type |-> "AttributeError", args |-> NoSplitMessage,
                site |-> "instance_types.py:131"])
    ELSE LET parts == Split(instance_type.value)
         IN  IF Len(parts) # 3 \/ parts[1] # <<"m", "l">>
             THEN Raise(ValueError(FormatMessage, "instance_types.py:133"))
             ELSE LET family == parts[2]
                  IN  Return(PyBool(family # <<"d">>
                                    /\ ~StartsWith(family, <<"g", "5">>)))

\* The body of the try statement.
volume_size_supported_try(instance_type) ==
    IF instance_type.type # "str"
    THEN Raise([type |-> "AttributeError", args |-> NoSplitMessage,
                site |-> "instance_types.py:131"])
    ELSE LET parts == Split(instance_type.value)
         IN  IF Len(parts) # 3 \/ parts[1] # <<"m", "l">>
             THEN Raise(ValueError(FormatMessage, "instance_types.py:133"))
             ELSE LET family == parts[2]
                  IN  Return(PyBool(~Contains(family, "d")
                                    /\ ~StartsWith(family, <<"g", "5">>)))

\* A variant that leaves the cause out of the message.
ParseFailureMessage_without_cause(instance_type, x) ==
    <<"Failed to parse instance type '">> \o Format(instance_type) \o <<"'">>

\* The message of the except clause.
ParseFailureMessage(instance_type, x) ==
    <<"Failed to parse instance type '">> \o Format(instance_type)
        \o <<"': ">> \o StrOfException(x)

volume_size_supported(instance_type) ==
    LET body == volume_size_supported_try(instance_type)
    IN  [outcome |-> IF body.kind = "raise"
                     THEN Raise(ValueError(ParseFailureMessage(instance_type, body.exc),
                                           "instance_types.py:140"))
                     ELSE body,
         trace |-> <<>>]

----------------------------------------------------------------------------
(* The callers' inputs *)

RegionArgs == {Omitted, PyNone, PyStr("us-west-2")}
ModelIdArgs == {Omitted, PyNone, PyStr("pytorch-ic-mobilenet-v2")}
ModelVersionArgs == {Omitted, PyNone, PyStr("1.0.0")}
ScopeArgs ==
    {Omitted, PyNone, PyStr("training"), PyStr("inference"), PyStr(""), PyStr("foo")}
FlagArgs == {Omitted, PyBool(FALSE), PyBool(TRUE)}

AcceptKwargs ==
    [region : RegionArgs, model_id : ModelIdArgs, model_version : ModelVersionArgs,
     tolerate_vulnerable_model : FlagArgs, tolerate_deprecated_model : FlagArgs]

InstanceKwargs ==
    [region : RegionArgs, model_id : ModelIdArgs, model_version : ModelVersionArgs,
     scope : ScopeArgs,
     tolerate_vulnerable_model : FlagArgs, tolerate_deprecated_model : FlagArgs]

\* Python's binding of a call's keyword arguments to the parameters.
Bind(kwargs, defaults) ==
    [p \in DOMAIN defaults |-> IF kwargs[p] = Omitted THEN defaults[p] ELSE kwargs[p]]

InstanceTypeSamples ==
    {PyNone,
     PyStr(<<>>),
     PyStr(<<"m","l",".","c","5","d",".","x","l","a","r","g","e">>),
     PyStr(<<"m","l",".","g","5",".","2","x","l","a","r","g","e">>),
     PyStr(<<"m","l",".","p","3",".","2","x","l","a","r","g","e">>),
     PyStr(<<"m","l",".","m","5",".","l","a","r","g","e">>),
     PyStr(<<"i","n","v","a","l","i","d","-","t","y","p","e">>),
     PyStr(<<"n","o","t","m","l",".","c","5",".","l","a","r","g","e">>),
     PyStr(<<"M","L",".","c","5",".","l","a","r","g","e">>),
     PyStr(<<"m","l",".","c","5",".","l","a","r","g","e",".","x">>),
     PyStr(<<"m","l",".",".","l","a","r","g","e">>)}

MaxLen == 6
Chars == {"m", "l", ".", "d", "g", "5", "D"}
Strings == UNION {[1..n -> Chars] : n \in 0..MaxLen}

----------------------------------------------------------------------------
(* One caller, one call at a time *)

Accessors ==
    {"accept_types.retrieve_options", "accept_types.retrieve_default",
     "instance_types.retrieve_default", "instance_types.retrieve"}

InstanceAccessors == {"instance_types.retrieve_default", "instance_types.retrieve"}

NoCall == [fn |-> "none"]
NoResult == [outcome |-> [kind |-> "none"], trace |-> <<>>]
NoEnv == [valid |-> FALSE, resolved |-> Return(PyNone)]
NoFrames == <<>>

Init ==
    /\ call = NoCall
    /\ env \in Envs
    /\ result = NoResult
    /\ frames = NoFrames

Call_retrieve_options ==
    /\ call = NoCall
    /\ \E kw \in AcceptKwargs, e \in Envs :
        /\ call' = [fn |-> "accept_types.retrieve_options", kwargs |-> kw,
                    args |-> Bind(kw, retrieve_options_defaults)]
        /\ env' = e
        /\ result' = retrieve_options(e, Bind(kw, retrieve_options_defaults))
    /\ UNCHANGED frames

Call_accept_types_retrieve_default ==
    /\ call = NoCall
    /\ \E kw \in AcceptKwargs, e \in Envs :
        /\ call' = [fn |-> "accept_types.retrieve_default", kwargs |-> kw,
                    args |-> Bind(kw, accept_types_retrieve_default_defaults)]
        /\ env' = e
        /\ result' = accept_types_retrieve_default(
                         e, Bind(kw, accept_types_retrieve_default_defaults))
    /\ UNCHANGED frames

Call_instance_types_retrieve_default ==
    /\ call = NoCall
    /\ \E kw \in InstanceKwargs, e \in Envs :
        /\ call' = [fn |-> "instance_types.retrieve_default", kwargs |-> kw,
                    args |-> Bind(kw, instance_types_retrieve_default_defaults)]
        /\ env' = e
        /\ result' = instance_types_retrieve_default(
                         e, Bind(kw, instance_types_retrieve_default_defaults))
    /\ UNCHANGED frames

Call_retrieve ==
    /\ call = NoCall
    /\ \E kw \in InstanceKwargs, e \in Envs :
        /\ call' = [fn |-> "instance_types.retrieve", kwargs |-> kw,
                    args |-> Bind(kw, retrieve_defaults)]
        /\ env' = e
        /\ result' = retrieve(e, Bind(kw, retrieve_defaults))
    /\ UNCHANGED frames

Call_volume_size_supported ==
    /\ call = NoCall
    /\ \E it \in InstanceTypeSamples, e \in Envs :
        /\ call' = [fn |-> "instance_types.volume_size_supported",
                    args |-> [instance_type |-> it]]
        /\ env' = e
        /\ result' = volume_size_supported(it)
    /\ UNCHANGED frames

\* The call has returned or raised; its values are dropped.
CallerResumes ==
    /\ call # NoCall
    /\ call' = NoCall
    /\ result' = NoResult
    /\ UNCHANGED <<env, frames>>

Next ==
    \/ Call_retrieve_options
    \/ Call_accept_types_retrieve_default
    \/ Call_instance_types_retrieve_default
    \/ Call_retrieve
    \/ Call_volume_size_supported
    \/ CallerResumes

Spec == Init /\ [][Next]_vars

----------------------------------------------------------------------------
(* volume_size_supported over every string of at most MaxLen characters    *)
(* of Chars, and the sample strings                                        *)

VssInit ==
    /\ call \in {[fn |-> "instance_types.volume_size_supported",
                  args |-> [instance_type |-> it]] :
                    it \in {PyStr(s) : s \in Strings} \cup (InstanceTypeSamples \ {PyNone})}
    /\ env = NoEnv
    /\ result = NoResult
    /\ frames = NoFrames

VssApply ==
    /\ result = NoResult
    /\ result' = volume_size_supported(call.args.instance_type)
    /\ UNCHANGED <<call, env, frames>>

VssNext == VssApply

VssSpec == VssInit /\ [][VssNext]_vars

----------------------------------------------------------------------------
(* Concurrent callers.  Each thread runs its call in a frame of its own:   *)
(* the function, its bound parameters, the position in the body, the       *)
(* answers the collaborator gave to this call, and the outcome.  The       *)
(* module keeps nothing outside the frames.                                *)

NumThreads == 2
Threads == 1..NumThreads

ConcAcceptArgs ==
    {Bind([region |-> Omitted, model_id |-> PyStr("pytorch-ic-mobilenet-v2"),
           model_version |-> PyStr("1.0.0"), tolerate_vulnerable_model |-> Omitted,
           tolerate_deprecated_model |-> Omitted], retrieve_options_defaults)}

ConcInstanceArgs ==
    {Bind([region |-> Omitted, model_id |-> PyStr("pytorch-ic-mobilenet-v2"),
           model_version |-> PyStr("1.0.0"), scope |-> sc,
           tolerate_vulnerable_model |-> Omitted,
           tolerate_deprecated_model |-> Omitted], retrieve_defaults) :
        sc \in {Omitted, PyStr("training")}}

ConcInstanceTypes ==
    {PyStr(<<"m","l",".","m","5",".","l","a","r","g","e">>),
     PyStr(<<"m","l",".","g","5",".","2","x","l","a","r","g","e">>),
     PyStr(<<"i","n","v","a","l","i","d","-","t","y","p","e">>)}

ConcCalls ==
    {[fn |-> f, args |-> a] :
        f \in {"accept_types.retrieve_options", "accept_types.retrieve_default"},
        a \in ConcAcceptArgs}
    \cup {[fn |-> f, args |-> a] : f \in InstanceAccessors, a \in ConcInstanceArgs}
    \cup {[fn |-> "instance_types.volume_size_supported",
           args |-> [instance_type |-> it]] : it \in ConcInstanceTypes}

IdleFrame ==
    [pc |-> "idle", fn |-> "none", args |-> <<>>, env |-> NoEnv,
     outcome |-> [kind |-> "none"]]

\* The ValueError of the function's identifier test.
IdentifierError(fn) ==
    CASE fn = "accept_types.retrieve_options" ->
            ValueError(AcceptTypesIdMessage, "accept_types.py:50")
      [] fn = "accept_types.retrieve_default" ->
            ValueError(AcceptTypesIdMessage, "accept_types.py:93")
      [] fn = "instance_types.retrieve_default" ->
            ValueError(InstanceTypesIdMessage, "instance_types.py:59")
      [] fn = "instance_types.retrieve" ->
            ValueError(InstanceTypesIdMessage, "instance_types.py:107")

\* The ValueError of the function's scope test.
ScopeError(fn) ==
    CASE fn = "instance_types.retrieve_default" ->
            ValueError(ScopeMessage, "instance_types.py:64")
      [] fn = "instance_types.retrieve" ->
            ValueError(ScopeMessage, "instance_types.py:112")

ConcInit ==
    /\ call = NoCall
    /\ env = NoEnv
    /\ result = NoResult
    /\ frames = [t \in Threads |-> IdleFrame]

\* Thread t enters one of the five functions.
Invoke(t) ==
    /\ frames[t].pc = "idle"
    /\ \E c \in ConcCalls :
        frames' = [frames EXCEPT ![t] =
            [pc |-> IF c.fn \in Accessors THEN "validate" ELSE "vss",
             fn |-> c.fn, args |-> c.args, env |-> NoEnv,
             outcome |-> [kind |-> "none"]]]
    /\ UNCHANGED <<call, env, result>>

\* if not jumpstart_utils.is_jumpstart_model_input(model_id, model_version): raise
Validate(t) ==
    /\ frames[t].pc = "validate"
    /\ \E b \in BOOLEAN :
        LET f == [frames[t] EXCEPT !.env.valid = b]
        IN  frames' = [frames EXCEPT ![t] =
                IF ~b
                THEN [f EXCEPT !.pc = "done", !.outcome = Raise(IdentifierError(f.fn))]
                ELSE [f EXCEPT !.pc = IF f.fn \in InstanceAccessors
                                      THEN "scope" ELSE "resolve"]]
    /\ UNCHANGED <<call, env, result>>

\* A variant that keeps scope in a slot of the module, where it is what one
\* of the instance accessor calls in flight has put there.
ScopeRead_module_slot(t) ==
    frames[CHOOSE u \in Threads :
               frames[u].fn \in InstanceAccessors /\ frames[u].pc # "idle"].args.scope

\* The parameter scope as the body of thread t's call reads it.
ScopeRead(t) == frames[t].args.scope

\* if scope is None: raise
CheckScope(t) ==
    /\ frames[t].pc = "scope"
    /\ LET f == frames[t]
       IN  frames' = [frames EXCEPT ![t] =
                IF ScopeRead(t) = PyNone
                THEN [f EXCEPT !.pc = "done", !.outcome = Raise(ScopeError(f.fn))]
                ELSE [f EXCEPT !.pc = "resolve"]]
    /\ UNCHANGED <<call, env, result>>

\* return artifacts._retrieve_...(...)
Resolve(t) ==
    /\ frames[t].pc = "resolve"
    /\ \E r \in ResolverOutcomes :
        frames' = [frames EXCEPT ![t] =
            [frames[t] EXCEPT !.env.resolved = r, !.pc = "done", !.outcome = r]]
    /\ UNCHANGED <<call, env, result>>

\* The body of volume_size_supported, which reads its parameter only.
RunVolumeSizeSupported(t) ==
    /\ frames[t].pc = "vss"
    /\ frames' = [frames EXCEPT ![t] =
            [frames[t] EXCEPT
                !.pc = "done",
                !.outcome = volume_size_supported(frames[t].args.instance_type).outcome]]
    /\ UNCHANGED <<call, env, result>>

\* The call returns or raises to its caller; the frame is gone.
Leave(t) ==
    /\ frames[t].pc = "done"
    /\ frames' = [frames EXCEPT ![t] = IdleFrame]
    /\ UNCHANGED <<call, env, result>>

ConcNext ==
    \E t \in Threads :
        \/ Invoke(t)
        \/ Validate(t)
        \/ CheckScope(t)
        \/ Resolve(t)
        \/ RunVolumeSizeSupported(t)
        \/ Leave(t)

ConcSpec == ConcInit /\ [][ConcNext]_vars

----------------------------------------------------------------------------
(* What the properties below speak of *)

ResolverOf(fn) ==
    CASE fn = "accept_types.retrieve_options" -> "_retrieve_supported_accept_types"
      [] fn = "accept_types.retrieve_default" -> "_retrieve_default_accept_type"
      [] fn = "instance_types.retrieve_default" -> "_retrieve_default_instance_type"
      [] fn = "instance_types.retrieve" -> "_retrieve_instance_types"

Range(f) == {f[i] : i \in DOMAIN f}

ValidityChecks ==
    {i \in DOMAIN result.trace : result.trace[i].fn = "is_jumpstart_model_input"}
ScopeChecks == {i \in DOMAIN result.trace : result.trace[i].fn = "scope is None"}
ResolverCalls == {i \in DOMAIN result.trace : result.trace[i].fn \in Resolvers}

Raised == result.outcome.kind = "raise"
\* The call ended with a ValueError that this module raised.
RaisedInvalidArgument ==
    /\ Raised
    /\ result.outcome.exc.type = "ValueError"
    /\ result.outcome.exc.site # "artifacts"

\* What the caller gave for parameter p; d when the caller left it out.
Given(p, d) == IF call.kwargs[p] = Omitted THEN d ELSE call.kwargs[p]

ScopeUnset == call.kwargs.scope \in {Omitted, PyNone}

\* x occurs in m as a run of consecutive elements
Embeds(m, x) ==
    \E i \in 1..(Len(m) - Len(x) + 1) : SubSeq(m, i, i + Len(x) - 1) = x

Periods(s) == {i \in 1..Len(s) : s[i] = "."}
\* s has exactly two periods and "ml" before the first
WellFormed(s) ==
    /\ Cardinality(Periods(s)) = 2
    /\ Len(s) >= 3 /\ s[1] = "m" /\ s[2] = "l" /\ s[3] = "."
\* the characters between the two periods of a well-formed s
FamilyOf(s) ==
    LET p == CHOOSE j \in Periods(s) : j > 3 IN SubSeq(s, 4, p - 1)

IsVss == call.fn = "instance_types.volume_size_supported"
Applied == result # NoResult
Input == call.args.instance_type

----------------------------------------------------------------------------
(* C1: for each of the four model accessors and whatever the region, scope *)
(* and tolerance flags, when the identifier-validity check answers false   *)
(* the call raises a ValueError of this module whose message names         *)
(* model_id and model_version, and no resolver is invoked.                 *)
C1_InvalidIdentifierRejected ==
    (call.fn \in Accessors /\ ~env.valid) =>
        /\ RaisedInvalidArgument
        /\ "'model_id'" \in Range(result.outcome.exc.args)
        /\ "'model_version'" \in Range(result.outcome.exc.args)
        /\ ResolverCalls = {}

C1_Witness ==
    /\ call.fn = "accept_types.retrieve_options"
    /\ ~env.valid
    /\ call.kwargs.region = PyStr("us-west-2")
    /\ call.kwargs.tolerate_vulnerable_model = PyBool(TRUE)
    /\ RaisedInvalidArgument

(* C2: for the two instance-type accessors, when the check answers true    *)
(* and scope is None or left out, the call raises ValueError "Must specify *)
(* scope for instance types." and no resolver is invoked.                  *)
C2_MissingScopeRejected ==
    (call.fn \in InstanceAccessors /\ env.valid /\ ScopeUnset) =>
        /\ RaisedInvalidArgument
        /\ result.outcome.exc.args = <<"Must specify scope for instance types.">>
        /\ ResolverCalls = {}

C2_Witness ==
    /\ call.fn = "instance_types.retrieve"
    /\ env.valid
    /\ call.kwargs.scope = Omitted
    /\ call.kwargs.tolerate_deprecated_model = PyBool(TRUE)
    /\ RaisedInvalidArgument

(* C5: when the check answers true (and scope is not None for the instance *)
(* accessors) the call invokes exactly one resolver, the accessor's own,   *)
(* once, with model_id, model_version, [scope], region and the two flags   *)
(* as the caller gave them (None, False, False when left out), and ends as *)
(* the resolver ended.                                                     *)
C5_DelegatesUnchanged ==
    (call.fn \in Accessors /\ env.valid
        /\ (call.fn \in InstanceAccessors => ~ScopeUnset)) =>
        /\ Cardinality(ResolverCalls) = 1
        /\ \A i \in ResolverCalls :
            /\ result.trace[i].fn = ResolverOf(call.fn)
            /\ result.trace[i].args =
                 <<Given("model_id", PyNone), Given("model_version", PyNone)>>
                 \o (IF call.fn \in InstanceAccessors THEN <<call.kwargs.scope>> ELSE <<>>)
                 \o <<Given("region", PyNone),
                      Given("tolerate_vulnerable_model", PyBool(FALSE)),
                      Given("tolerate_deprecated_model", PyBool(FALSE))>>
        /\ result.outcome = env.resolved

C5_Witness ==
    /\ call.fn = "instance_types.retrieve_default"
    /\ env.valid
    /\ call.kwargs.scope = PyStr("inference")
    /\ call.kwargs.region = Omitted
    /\ call.kwargs.tolerate_vulnerable_model = Omitted
    /\ result.outcome = Return(PyStr("application/json"))

(* C6: in every accessor call the identifier-validity check is the first   *)
(* interaction and happens exactly once, before the scope test and before  *)
(* any resolver call; an instance accessor called with an invalid          *)
(* identifier and no scope reports the identifier, not the scope.          *)
C6_ValidityCheckedFirst ==
    (call.fn \in Accessors) =>
        /\ ValidityChecks = {1}
        /\ result.trace[1].args = <<Given("model_id", PyNone), Given("model_version", PyNone)>>
        /\ \A i \in ScopeChecks \cup ResolverCalls : i > 1
        /\ (call.fn \in InstanceAccessors /\ ~env.valid /\ ScopeUnset) =>
            /\ RaisedInvalidArgument
            /\ result.outcome.exc.args = InstanceTypesIdMessage
            /\ ScopeChecks = {}

C6_Witness ==
    /\ call.fn = "instance_types.retrieve"
    /\ ~env.valid
    /\ call.kwargs.scope = PyNone
    /\ result.outcome.exc.args = InstanceTypesIdMessage

(* C7 as stated: whenever the identifier-validity check answers false,     *)
(* each of the five public functions, volume_size_supported among them,    *)
(* raises ValueError and the resolver is never called.                     *)
C7_AllFiveRejected ==
    (call # NoCall /\ ~env.valid) => (RaisedInvalidArgument /\ ResolverCalls = {})

(* C7 amended: whenever the check answers false, each of the four model    *)
(* accessors raises ValueError and no resolver is called;                  *)
(* volume_size_supported asks the collaborator nothing and raises exactly  *)
(* when its instance type is malformed, whatever the check would answer.   *)
C7_FourRejectedVssUnaffected ==
    /\ (call.fn \in Accessors /\ ~env.valid) =>
           (RaisedInvalidArgument /\ ResolverCalls = {})
    /\ IsVss =>
        /\ result.trace = <<>>
        /\ Raised <=> (Input.type # "str" \/ ~WellFormed(Input.value))

C7_Witness ==
    /\ IsVss
    /\ ~env.valid
    /\ Input = PyStr(<<"m","l",".","m","5",".","l","a","r","g","e">>)
    /\ result.outcome = Return(PyBool(TRUE))

(* C8: the module raises only ValueError, and exactly when the identifier  *)
(* is invalid, or scope is missing where required, or the instance-type    *)
(* string is malformed; a failure of a resolver call reaches the caller as *)
(* the same exception, and the resolver is not called again.               *)
C8_OnlyInvalidArgumentAndPropagation ==
    /\ (Raised /\ result.outcome.exc.site # "artifacts") =>
           result.outcome.exc.type = "ValueError"
    /\ (call # NoCall) =>
        (RaisedInvalidArgument <=>
            \/ call.fn \in Accessors /\ ~env.valid
            \/ call.fn \in InstanceAccessors /\ env.valid /\ ScopeUnset
            \/ IsVss /\ (Input.type # "str" \/ ~WellFormed(Input.value)))
    /\ \A i \in ResolverCalls :
        result.trace[i].ret.kind = "raise" =>
            /\ result.outcome = result.trace[i].ret
            /\ ResolverCalls = {i}

C8_Witness ==
    /\ call.fn = "instance_types.retrieve_default"
    /\ \E i \in ResolverCalls : result.trace[i].ret.kind = "raise"
    /\ Raised
    /\ result.outcome.exc.type = "KeyError"
    /\ result.outcome.exc.site = "artifacts"

(* C10: the instance accessors test scope only against None: with a valid  *)
(* identifier and any other scope, "" and "foo" included, the module       *)
(* raises nothing of its own and hands that scope to the resolver.         *)
C10_ScopeOnlyNullChecked ==
    (call.fn \in InstanceAccessors /\ env.valid /\ ~ScopeUnset) =>
        /\ ~RaisedInvalidArgument
        /\ Raised => result.outcome.exc.site = "artifacts"
        /\ ResolverCalls # {}
        /\ \A i \in ResolverCalls : result.trace[i].args[3] = call.kwargs.scope

C10_Witness ==
    /\ call.fn = "instance_types.retrieve"
    /\ env.valid
    /\ call.kwargs.scope = PyStr("foo")
    /\ result.outcome.kind = "return"
    /\ \E i \in ResolverCalls : result.trace[i].args[3] = PyStr("foo")

----------------------------------------------------------------------------
(* C3: for every string with exactly three period-separated segments, the  *)
(* first being "ml" (the other two may be empty), volume_size_supported    *)
(* returns, and returns True exactly when the second segment holds no "d"  *)
(* and does not start with "g5"; the third segment plays no part.          *)
(* ml.c5d.xlarge and ml.g5.2xlarge give False, ml.p3.2xlarge and           *)
(* ml.m5.large give True.                                                  *)
C3_VolumeSizeRule ==
    (IsVss /\ Applied /\ Input.type = "str") =>
        /\ WellFormed(Input.value) =>
            result.outcome =
                Return(PyBool(/\ \A i \in DOMAIN FamilyOf(Input.value) :
                                    FamilyOf(Input.value)[i] # "d"
                              /\ ~(/\ Len(FamilyOf(Input.value)) >= 2
                                   /\ FamilyOf(Input.value)[1] = "g"
                                   /\ FamilyOf(Input.value)[2] = "5")))
        /\ Input.value = <<"m","l",".","c","5","d",".","x","l","a","r","g","e">>
               => result.outcome = Return(PyBool(FALSE))
        /\ Input.value = <<"m","l",".","g","5",".","2","x","l","a","r","g","e">>
               => result.outcome = Return(PyBool(FALSE))
        /\ Input.value = <<"m","l",".","p","3",".","2","x","l","a","r","g","e">>
               => result.outcome = Return(PyBool(TRUE))
        /\ Input.value = <<"m","l",".","m","5",".","l","a","r","g","e">>
               => result.outcome = Return(PyBool(TRUE))

C3_Witness ==
    /\ IsVss /\ Applied
    /\ Input = PyStr(<<"m", "l", ".", "g", "5", ".">>)
    /\ result.outcome = Return(PyBool(FALSE))

(* C4: for every string that has not exactly three period-separated        *)
(* segments, or whose first segment is not "ml", volume_size_supported     *)
(* returns nothing and raises a ValueError whose message holds the input   *)
(* string unchanged and the text of the format failure.                    *)
C4_MalformedRejected ==
    (IsVss /\ Applied /\ Input.type = "str" /\ ~WellFormed(Input.value)) =>
        /\ RaisedInvalidArgument
        /\ Embeds(result.outcome.exc.args, Input.value)
        /\ Embeds(result.outcome.exc.args,
                  <<"Instance type must have 2 periods and start with 'ml'.">>)

C4_Witness ==
    /\ IsVss /\ Applied
    /\ Input = PyStr(<<"m", "l", ".", "d", ".", ".">>)
    /\ RaisedInvalidArgument
    /\ Embeds(result.outcome.exc.args, <<"m", "l", ".", "d", ".", ".">>)

----------------------------------------------------------------------------
\* What the call of frame f yields when it runs alone and the collaborator
\* answers it as f.env says.
RunAlone(f) ==
    CASE f.fn = "accept_types.retrieve_options" -> retrieve_options(f.env, f.args)
      [] f.fn = "accept_types.retrieve_default" ->
            accept_types_retrieve_default(f.env, f.args)
      [] f.fn = "instance_types.retrieve_default" ->
            instance_types_retrieve_default(f.env, f.args)
      [] f.fn = "instance_types.retrieve" -> retrieve(f.env, f.args)
      [] f.fn = "instance_types.volume_size_supported" ->
            volume_size_supported(f.args.instance_type)

(* C9: under any interleaving of concurrent calls, and after any earlier   *)
(* calls, failed ones included, the outcome of each finished call is the   *)
(* one the same call has when it runs alone: a function of its own         *)
(* arguments and of the collaborator's answers to it.                      *)
C9_OutcomeAsWhenAlone ==
    \A t \in Threads :
        frames[t].pc = "done" => frames[t].outcome = RunAlone(frames[t]).outcome

C9_Witness ==
    /\ frames[1].pc = "done"
    /\ frames[1].fn = "instance_types.retrieve"
    /\ frames[1].args.scope = PyStr("training")
    /\ frames[1].outcome = Return(PyStr("application/json"))
    /\ frames[2].pc = "scope"
    /\ frames[2].fn = "instance_types.retrieve"
    /\ frames[2].args.scope = PyNone

====
